---------------------------- MODULE Spec2Model ----------------------------
(***************************************************************************)
(* A model of the vibe sequencer (src/index.js): the pattern generators,   *)
(* the Sequencer component (generation effect, cell edit, duration,        *)
(* playback effect) and the App component (playlist, play / pause,         *)
(* remove, add, auto-advance).                                             *)
(*                                                                         *)
(* Numbers.  JavaScript doubles are modelled in fixed point: a draw of     *)
(* Math.random() is an integer number of thousandths in [0, 999]           *)
(* (RandomScale), Math.sin is a table of millionths (SinScale) computed    *)
(* with IEEE doubles and floored.  Array indices are the JavaScript        *)
(* (0-based) ones; a TLA+ sequence holds index i at position i + 1.        *)
(***************************************************************************)
EXTENDS Integers, Sequences, FiniteSets, TLC

(***************************************************************************)
(* Bounds of the model.                                                    *)
(***************************************************************************)
\* Largest row count tried by the generator specification.
MaxRows == 5
\* Largest column count tried by the generator specification.
MaxCols == 3
\* The column count of a new Sequencer and the length of a new sequence:
\* the program's 16 (useState(16), range(16)), scaled down.
DefaultColumns == 2
\* Most sequences the playlist is grown to.
MaxSequences == 2
\* Most 100 ms steps of a movement sequence asked of the controller.
MaxSteps == 4
\* Most newline-terminated lines of a stream sent to the TCP bridge.
MaxLines == 2

(***************************************************************************)
(* Arithmetic helpers.                                                     *)
(***************************************************************************)
Min(a, b) == IF a < b THEN a ELSE b

Max(a, b) == IF a > b THEN a ELSE b

Abs(a) == IF a < 0 THEN -a ELSE a

\* JavaScript's % : the result has the sign of the dividend.
JSMod(a, n) == IF a >= 0 THEN a % n ELSE -((-a) % n)

\* One thousandth: the unit of a modelled Math.random() draw.
RandomScale == 1000

\* The draws of Math.random() the model tries: each is in [0, 1), and the
\* set holds a value on each side of every threshold the generators compare
\* a draw with (0.1, 0.3, 0.5, 0.7, 0.9) and one in every bucket of
\* Math.floor(Math.random() * n) for n up to 6.
RandomDraws == {0, 100, 250, 499, 500, 699, 700, 900, 999}

\* Math.floor(Math.random() * n) for the draw r.
FloorRandom(r, n) == (r * n) \div RandomScale

\* The values Math.floor(Math.random() * n) can take.
FloorRandoms(n) == {FloorRandom(r, n) : r \in RandomDraws}

\* One millionth: the unit of the sine tables.
SinScale == 1000000

\* Math.sin(i / cols * Math.PI * 2) in millionths, floored, for cols = 1..8
\* and i = 0..cols-1 (row cols, position i + 1).
SinTurnTable ==
  << <<0>>,
     <<0, 0>>,
     <<0, 866025, -866026>>,
     <<0, 1000000, 0, -1000000>>,
     <<0, 951056, 587785, -587786, -951057>>,
     <<0, 866025, 866025, 0, -866026, -866026>>,
     <<0, 781831, 974927, 433883, -433884, -974928, -781832>>,
     <<0, 707106, 1000000, 707106, 0, -707107, -1000000, -707107>> >>

\* The same for the second turn, i = cols..2 * cols - 1 (row cols, position
\* i - cols + 1): Math.sin(Math.PI * 2) is -2.4492935982947064e-16.
SinSecondTurnTable ==
  << <<-1>>,
     <<-1, 0>>,
     <<-1, 866025, -866026>>,
     <<-1, 1000000, 0, -1000000>>,
     <<-1, 951056, 587785, -587786, -951057>>,
     <<-1, 866025, 866025, 0, -866026, -866026>>,
     <<-1, 781831, 974927, 433883, -433884, -974928, -781832>>,
     <<-1, 707106, 1000000, 707106, 0, -707107, -1000000, -707107>> >>

SinTurn(i, cols) ==
  IF i < cols THEN SinTurnTable[cols][i + 1]
  ELSE SinSecondTurnTable[cols][i - cols + 1]

\* Math.sin(i * 0.5) in millionths, floored, for i = 0..11 (position i + 1).
SinHalfTable ==
  <<0, 479425, 841470, 997494, 909297, 598472, 141120, -350784, -756803,
    -977531, -958925, -705541>>

SinHalf(i) == SinHalfTable[i + 1]

\* Math.tanh(x) in thousandths for x = 0, 0.25, ..., 2 (position k + 1 for
\* x = k / 4).
TanhTable == <<0, 245, 462, 635, 762, 848, 905, 941, 964>>

\* Math.tanh of x thousandths, x in [0, 2000]: the table, interpolated.
Tanh(x) ==
  LET k == x \div 250
      f == x % 250
  IN  IF k >= 8 THEN TanhTable[9]
      ELSE TanhTable[k + 1] + ((TanhTable[k + 2] - TanhTable[k + 1]) * f) \div 250

\* The patterns of length cols whose column i (0-based) is in levels[i + 1].
RECURSIVE PatternsOverFrom(_, _, _, _)
PatternsOverFrom(cols, levels, c, patterns) ==
  IF c > cols THEN patterns
  ELSE PatternsOverFrom(cols, levels, c + 1,
         {Append(p, v) : p \in patterns, v \in levels[c]})

PatternsOver(cols, levels) == PatternsOverFrom(cols, levels, 1, {<<>>})

(***************************************************************************)
(* The pattern generators.  A generator that draws from Math.random() is   *)
(* the set of the patterns it can return.                                  *)
(***************************************************************************)
generateRandomPattern(rows, cols) == [1..cols -> FloorRandoms(rows)]

\* Column i of the sine pattern:
\* Math.floor((Math.sin(i / cols * Math.PI * 2) + 1) / 2 * (rows - 1)).
SineLevel(rows, cols, i) ==
  ((SinTurn(i, cols) + SinScale) * (rows - 1)) \div (2 * SinScale)

generateSineWavePattern(rows, cols) ==
  [c \in 1..cols |-> SineLevel(rows, cols, c - 1)]

\* Math.max(0, Math.min(rows - 1, next)).
Clamp(rows, next) == Max(0, Min(rows - 1, next))

\* A step that may also be 0.
BrownianStepStatic(r1, r2, r3) ==
  IF r1 < 700 THEN (IF r2 < 500 THEN 0 ELSE 1)
  ELSE (IF r3 < 500 THEN -2 ELSE 2)

\* The step of the brownian walk for the three draws of one iteration.
BrownianStep(r1, r2, r3) ==
  IF r1 < 700 THEN (IF r2 < 500 THEN -1 ELSE 1)
  ELSE (IF r3 < 500 THEN -2 ELSE 2)

BrownianSteps ==
  {BrownianStep(r1, r2, r3) : r1 \in RandomDraws, r2 \in RandomDraws,
                              r3 \in RandomDraws}

BrownianNext(rows, prev, step) == Clamp(rows, prev + step)

RECURSIVE BrownianLoop(_, _, _)
BrownianLoop(rows, cols, pats) ==
  IF \A p \in pats : Len(p) >= cols THEN pats
  ELSE BrownianLoop(rows, cols,
         {Append(p, BrownianNext(rows, p[Len(p)], s)) :
            p \in pats, s \in BrownianSteps})

\* The brownian walk without its first entry.
generateBrownianPatternTail(rows, cols) ==
  {Tail(p) : p \in BrownianLoop(rows, cols, {<<v>> : v \in FloorRandoms(rows)})}

generateBrownianPattern(rows, cols) ==
  BrownianLoop(rows, cols, {<<v>> : v \in FloorRandoms(rows)})

\* The weights of the life-like walk, in thousandths.
LifeLikeWeights == <<100, 200, 400, 200, 100>>

RECURSIVE SumSeq(_)
SumSeq(s) == IF s = <<>> THEN 0 ELSE Head(s) + SumSeq(Tail(s))

\* The index (0-based) chosen for the draw r: the first i with
\* random < weights[0] + ... + weights[i], else the last index.
RECURSIVE WeightedIndexFrom(_, _, _, _)
WeightedIndexFrom(weights, random, i, cumulativeWeight) ==
  IF i >= Len(weights) THEN Len(weights) - 1
  ELSE IF random < cumulativeWeight + weights[i + 1] THEN i
  ELSE WeightedIndexFrom(weights, random, i + 1,
                         cumulativeWeight + weights[i + 1])

getWeightedRandomIndex(weights, r) ==
  WeightedIndexFrom(weights, (r * SumSeq(weights)) \div RandomScale, 0, 0)

\* A life-like step that is only clamped.
LifeLikeNextClamped(rows, prev, r) ==
  LET choices == <<prev - 2, prev - 1, prev, prev + 1, prev + 2>>
  IN  Clamp(rows, choices[getWeightedRandomIndex(LifeLikeWeights, r) + 1])

\* The next value of the life-like walk after prev for the draw r: the
\* weighted choice, clamped, and moved off a boundary it would repeat.
LifeLikeNext(rows, prev, r) ==
  LET choices == <<prev - 2, prev - 1, prev, prev + 1, prev + 2>>
      next == choices[getWeightedRandomIndex(LifeLikeWeights, r) + 1]
      nextUnclamped == Clamp(rows, next)
  IN  IF prev = 0 /\ nextUnclamped = 0 THEN 1
      ELSE IF prev = rows - 1 /\ nextUnclamped = rows - 1 THEN rows - 2
      ELSE nextUnclamped

RECURSIVE LifeLikeLoop(_, _, _)
LifeLikeLoop(rows, cols, pats) ==
  IF \A p \in pats : Len(p) >= cols THEN pats
  ELSE LifeLikeLoop(rows, cols,
         {Append(p, LifeLikeNext(rows, p[Len(p)], r)) :
            p \in pats, r \in RandomDraws})

generateLifeLikePattern(rows, cols) ==
  LifeLikeLoop(rows, cols, {<<v>> : v \in FloorRandoms(rows)})

\* The next cell of the cellular pattern after prev, d being
\* Math.floor(Math.random() * 3).
CellularNext(rows, prev, d) == Clamp(rows, JSMod(prev + d - 1, rows))

RECURSIVE CellularLoop(_, _, _)
CellularLoop(rows, cols, pats) ==
  IF \A p \in pats : Len(p) >= cols THEN pats
  ELSE CellularLoop(rows, cols,
         {Append(p, CellularNext(rows, p[Len(p)], d)) :
            p \in pats, d \in FloorRandoms(3)})

\* The pattern of one call: seed sets the rule number, which nothing reads;
\* first is the draw of pattern[0] and later[i] the draw of step i.
RECURSIVE CellularRunFrom(_, _, _, _)
CellularRunFrom(rows, cols, later, pattern) ==
  IF Len(pattern) >= cols THEN pattern
  ELSE CellularRunFrom(rows, cols, later,
         Append(pattern,
                CellularNext(rows, pattern[Len(pattern)],
                             FloorRandom(later[Len(pattern)], 3))))

CellularRun(rows, cols, seed, first, later) ==
  LET rule == FloorRandom(seed, 256)
  IN  CellularRunFrom(rows, cols, later, <<FloorRandom(first, rows)>>)

\* The seed only sets the unused rule number; pattern[0] is a fresh draw.
generateCellularPattern(rows, cols) ==
  CellularLoop(rows, cols, {<<v>> : v \in FloorRandoms(rows)})

\* The axiom "0" rewritten three times by 0 -> 01, 1 -> 10.
LSystemAxiom == <<0, 1, 1, 0, 1, 0, 0, 1>>

RECURSIVE LSystemLoop(_, _, _, _)
LSystemLoop(rows, cols, current, pattern) ==
  IF Len(pattern) >= cols THEN pattern
  ELSE LET symbol == LSystemAxiom[(Len(pattern) % Len(LSystemAxiom)) + 1]
           cur == JSMod(current + (IF symbol = 1 THEN 1 ELSE -1), rows)
       IN  LSystemLoop(rows, cols, cur, Append(pattern, Clamp(rows, cur)))

generateLSystemPattern(rows, cols) ==
  {LSystemLoop(rows, cols, FloorRandom(seed, rows), <<>>) : seed \in RandomDraws}

\* The next level of the organic walk: current plus -1, 0 or +1, clamped.
OrganicNext(rows, current, d) ==
  LET next == current + d - 1
  IN  IF next < 0 THEN 0 ELSE IF next > rows - 1 THEN rows - 1 ELSE next

RECURSIVE OrganicLoop(_, _, _)
OrganicLoop(rows, cols, pats) ==
  IF \A p \in pats : Len(p) >= cols THEN pats
  ELSE OrganicLoop(rows, cols,
         {Append(p, OrganicNext(rows, p[Len(p)], d)) :
            p \in pats, d \in FloorRandoms(3)})

generateOrganicMotion(rows, cols) ==
  OrganicLoop(rows, cols, {<<v>> : v \in FloorRandoms(rows)})

\* Column i of the 'auto' pattern for the draw r:
\* Math.floor(Math.sin(i * 0.5) * (rows - 1) + Math.random() * 2).
AutoLevel(rows, i, r) ==
  (SinHalf(i) * (rows - 1) + r * 2 * (SinScale \div RandomScale)) \div SinScale

generateAutoPattern(rows, cols) ==
  PatternsOver(cols, [c \in 1..cols |->
                        {AutoLevel(rows, c - 1, r) : r \in RandomDraws}])

\* The draws the perlin generator's noise() is tried with.
PerlinDraws == {0, 999}

\* noise(x) == Math.random() * 2 - 1, in thousandths (x is not used).
PerlinNoise(r) == r * 2 - RandomScale

\* smoothNoise(x): the mean of three fresh noise values.
SmoothNoiseValues ==
  {(PerlinNoise(r1) + PerlinNoise(r2) + PerlinNoise(r3)) \div 3 :
     r1 \in PerlinDraws, r2 \in PerlinDraws, r3 \in PerlinDraws}

\* interpolate(a, b, t) == a + (b - a) * (t * t * (3 - 2 * t)), thousandths.
PerlinInterpolate(a, b, t) ==
  a + ((b - a) * ((((t * t) \div RandomScale) * (3 * RandomScale - 2 * t))
                  \div RandomScale)) \div RandomScale

\* The number of octaves of perlin(x).
PerlinOctaves == 4

\* 2 to the power o.
RECURSIVE Pow2(_)
Pow2(o) == IF o = 0 THEN 1 ELSE 2 * Pow2(o - 1)

\* The values octave o (0-based) can add to total, in units of 1/8000:
\* frequency is 0.5 * 2^o, amplitude 2^-o, xf the fraction of x * frequency.
PerlinOctaveValues(x, o) ==
  LET xf == ((x * Pow2(o)) \div 2) % RandomScale
  IN  {PerlinInterpolate(a, b, xf) * Pow2(PerlinOctaves - 1 - o) :
         a \in SmoothNoiseValues, b \in SmoothNoiseValues}

RECURSIVE PerlinTotals(_, _, _)
PerlinTotals(x, o, totals) ==
  IF o >= PerlinOctaves THEN totals
  ELSE PerlinTotals(x, o + 1,
         {t + v : t \in totals, v \in PerlinOctaveValues(x, o)})

\* Column i of the perlin pattern: perlin(i / cols * 10) is total / maxValue
\* with maxValue = 1 + 1/2 + 1/4 + 1/8 (15 in units of 1/8), normalized by
\* (noiseValue + 1) / 2 and scaled by rows - 1.
PerlinLevels(rows, cols, i) ==
  LET x == (i * 10 * RandomScale) \div cols
      maxValue == Pow2(PerlinOctaves) - 1
  IN  {((t + maxValue * RandomScale) * (rows - 1)) \div (2 * maxValue * RandomScale) :
         t \in PerlinTotals(x, 0, {0})}

generatePerlinPattern(rows, cols) ==
  PatternsOver(cols, [c \in 1..cols |-> PerlinLevels(rows, cols, c - 1)])

\* The draws the neural generator is tried with.
NeuralDraws == {0, 999}

\* The initial input windows (5 draws) and hidden weights (16 draws) tried.
NeuralInputs ==
  {<<0, 0, 0, 0, 0>>, <<0, 0, 0, 0, 999>>, <<500, 250, 0, 999, 100>>}

NeuralHidden ==
  {[j \in 1..16 |-> 0], [j \in 1..16 |-> 999],
   [j \in 1..16 |-> IF j % 2 = 0 THEN 500 ELSE 0]}

\* hiddenActivation[j] (0-based j): Math.tanh(input[j % 4] * w + seed).
HiddenActivation(input, hidden, seed) ==
  [j \in 1..16 |->
     Tanh((input[((j - 1) % 4) + 1] * hidden[j]) \div RandomScale + seed)]

\* outputActivation[j]: the sum over the hidden units k of h[k] * w, w being
\* output unit j's own weight.
OutputActivation(hiddenActivation, output) ==
  [j \in 1..Len(output) |->
     SumSeq([k \in 1..16 |-> hiddenActivation[k] * output[j]])]

\* activations.indexOf(Math.max(...activations)): the first index (0-based)
\* of the largest entry.
IndexOfMax(activations) ==
  LET m == CHOOSE v \in {activations[j] : j \in 1..Len(activations)} :
             \A j \in 1..Len(activations) : activations[j] <= v
  IN  (CHOOSE j \in 1..Len(activations) :
         /\ activations[j] = m
         /\ \A k \in 1..(j - 1) : activations[k] # m) - 1

\* The loop of generateNeuralPattern: feed is what input.push() appends
\* after every step.
RECURSIVE NeuralLoop(_, _, _, _, _, _, _)
NeuralLoop(cols, input, hidden, output, seed, feed, pattern) ==
  IF Len(pattern) >= cols THEN pattern
  ELSE LET maxIndex ==
             IndexOfMax(OutputActivation(HiddenActivation(input, hidden, seed),
                                         output))
       IN  NeuralLoop(cols, Append(Tail(input), feed), hidden, output, seed,
                      feed, Append(pattern, maxIndex))

generateNeuralPattern(rows, cols) ==
  {NeuralLoop(cols, input, hidden, output, seed, feed, <<>>) :
     input \in NeuralInputs, hidden \in NeuralHidden,
     output \in [1..rows -> NeuralDraws],
     seed \in {0, 500}, feed \in NeuralDraws}

\* The draws the entries of the Markov transition matrix are tried with.
MarkovDraws == {0, 500, 999}

\* One millionth: the unit of a transition probability.
ProbScale == 1000000

\* A probability that is NaN (a row of draws that sums to 0 divides 0 by 0).
NaN == -1

\* The matrices tried: row i gives the draw a to state (i + k) % rows and
\* the draw b to every other state.
MarkovMatricesBy(rows, shifts) ==
  {[i \in 1..rows |-> [j \in 1..rows |->
      IF j - 1 = (i - 1 + k) % rows THEN a ELSE b]] :
     k \in shifts, a \in MarkovDraws, b \in MarkovDraws}

MarkovMatrices(rows) == MarkovMatricesBy(rows, 0..(rows - 1))

\* A row of the matrix divided by its sum.
NormalizeRow(row) ==
  LET rowSum == SumSeq(row)
  IN  [j \in 1..Len(row) |->
         IF rowSum = 0 THEN NaN ELSE (row[j] * ProbScale) \div rowSum]

\* A search that wants rand strictly below the cumulative probability.
RECURSIVE MarkovNextFromStrict(_, _, _, _, _)
MarkovNextFromStrict(probs, rand, currentState, nextState, cumulativeProb) ==
  IF nextState >= Len(probs) THEN currentState
  ELSE LET p == probs[nextState + 1]
           cum == IF p = NaN \/ cumulativeProb = NaN THEN NaN
                  ELSE cumulativeProb + p
       IN  IF cum # NaN /\ rand * (ProbScale \div RandomScale) < cum
           THEN nextState
           ELSE MarkovNextFromStrict(probs, rand, currentState, nextState + 1,
                                     cum)

\* The state after currentState for the draw rand: the first nextState with
\* rand <= cumulativeProb, else currentState (a comparison with NaN is false).
RECURSIVE MarkovNextFrom(_, _, _, _, _)
MarkovNextFrom(probs, rand, currentState, nextState, cumulativeProb) ==
  IF nextState >= Len(probs) THEN currentState
  ELSE LET p == probs[nextState + 1]
           cum == IF p = NaN \/ cumulativeProb = NaN THEN NaN
                  ELSE cumulativeProb + p
       IN  IF cum # NaN /\ rand * (ProbScale \div RandomScale) <= cum
           THEN nextState
           ELSE MarkovNextFrom(probs, rand, currentState, nextState + 1, cum)

MarkovNext(matrix, currentState, rand) ==
  MarkovNextFrom(NormalizeRow(matrix[currentState + 1]), rand, currentState,
                 0, 0)

RECURSIVE MarkovLoop(_, _, _)
MarkovLoop(matrix, cols, pats) ==
  IF \A p \in pats : Len(p) >= cols THEN pats
  ELSE MarkovLoop(matrix, cols,
         {Append(p, MarkovNext(matrix, p[Len(p)], rand)) :
            p \in pats, rand \in RandomDraws})

generateMarkovPattern(rows, cols) ==
  UNION {MarkovLoop(matrix, cols, {<<v>> : v \in FloorRandoms(rows)}) :
           matrix \in MarkovMatrices(rows)}

\* The size of the genetic population, the number of individuals kept by
\* each generation, and the number of generations.
PopulationSize == 10

Survivors == 5

Generations == 5

\* fitness(pattern) in units of 1 / rows: the sum over adjacent pairs of
\* 1 - |pattern[i] - pattern[i-1]| / rows.
fitness(rows, pattern) ==
  SumSeq([i \in 1..(Len(pattern) - 1) |->
            rows - Abs(pattern[i + 1] - pattern[i])])

\* population.sort((a, b) => fitness(b) - fitness(a)): descending fitness,
\* equal fitness keeping its order (the sort is stable).
RECURSIVE InsertByFitness(_, _, _)
InsertByFitness(rows, sorted, x) ==
  IF sorted = <<>> THEN <<x>>
  ELSE IF fitness(rows, Head(sorted)) >= fitness(rows, x)
       THEN <<Head(sorted)>> \o InsertByFitness(rows, Tail(sorted), x)
       ELSE <<x>> \o sorted

RECURSIVE SortByFitnessFrom(_, _, _)
SortByFitnessFrom(rows, sorted, rest) ==
  IF rest = <<>> THEN sorted
  ELSE SortByFitnessFrom(rows, InsertByFitness(rows, sorted, Head(rest)),
                         Tail(rest))

SortByFitness(rows, population) == SortByFitnessFrom(rows, <<>>, population)

\* The child bred from the sorted population for the draws d: two parents
\* among the first five, uniform crossover, then per-gene mutation.
GeneticChild(rows, cols, population, d) ==
  LET parent1 == population[FloorRandom(d.p1, Survivors) + 1]
      parent2 == population[FloorRandom(d.p2, Survivors) + 1]
      crossover == [j \in 1..cols |->
                      IF d.cross[j] < 500 THEN parent1[j] ELSE parent2[j]]
  IN  [j \in 1..cols |->
         IF d.mut[j] < 100 THEN FloorRandom(d.val[j], rows) ELSE crossover[j]]

\* The draws tried, by plan: a plan fixes the draws of every child of
\* every generation.
RandomDrawSeq == <<0, 100, 250, 499, 500, 699, 700, 900, 999>>

GeneticPlans ==
  [a : {0, 2}, b : {1, 4}, c : {0, 1}, m : {0, 1}]

ChildDraws(plan, cols, generation, i) ==
  [p1 |-> RandomDrawSeq[((plan.a + i) % Len(RandomDrawSeq)) + 1],
   p2 |-> RandomDrawSeq[((plan.b + generation + i) % Len(RandomDrawSeq)) + 1],
   cross |-> [j \in 1..cols |-> IF (j + plan.c) % 2 = 0 THEN 0 ELSE 999],
   mut |-> [j \in 1..cols |->
              IF plan.m = 1 /\ (i + j + generation) % 3 = 0 THEN 0 ELSE 999],
   val |-> [j \in 1..cols |->
              RandomDrawSeq[((generation + i + j) % Len(RandomDrawSeq)) + 1]]]

\* The initial populations tried: gene j of individual k is
\* (k * s + j * t + o) % rows.
GeneticPopulations(rows, cols) ==
  {[k \in 1..PopulationSize |-> [j \in 1..cols |-> (k * s + j * t + o) % rows]] :
     s \in {0, 1}, t \in {0, 1}, o \in {0, 1}}

\* A generation that sorts and then replaces every individual by a child.
GeneticGenerationNoElite(rows, cols, population, plan, generation) ==
  LET sorted == SortByFitness(rows, population)
  IN  [i \in 1..PopulationSize |->
         GeneticChild(rows, cols, sorted,
                      ChildDraws(plan, cols, generation, i - 1))]

\* One generation: sort, then replace the individuals after the first five.
GeneticGeneration(rows, cols, population, plan, generation) ==
  LET sorted == SortByFitness(rows, population)
  IN  [i \in 1..PopulationSize |->
         IF i <= Survivors THEN sorted[i]
         ELSE GeneticChild(rows, cols, sorted,
                           ChildDraws(plan, cols, generation, i - 1))]

RECURSIVE GeneticLoop(_, _, _, _, _)
GeneticLoop(rows, cols, population, plan, generation) ==
  IF generation >= Generations THEN population
  ELSE GeneticLoop(rows, cols,
                   GeneticGeneration(rows, cols, population, plan, generation),
                   plan, generation + 1)

\* population[0] after the last generation.
generateGeneticPattern(rows, cols) ==
  {GeneticLoop(rows, cols, population, plan, 0)[1] :
     population \in GeneticPopulations(rows, cols), plan \in GeneticPlans}

(***************************************************************************)
(* The state of the program.                                               *)
(***************************************************************************)
VARIABLES
  sequences,    \* App: the playlist, each entry [values, duration]
  playing,      \* App: the index of the playing entry, or NoPlaying
  autoAdvance,  \* App: the auto-advance checkbox
  device,       \* App: the selected device (its capabilities), or NoDevice
  sequencers,   \* the mounted Sequencers by key (index): their own state
                \* [playingIndex, rows, columns, patternMode]
  timeouts,     \* the onAdvance closures handed to setTimeout, not yet run
  sent,         \* the last command the device received
  ticks,        \* history: ticks since playback was last started or
                \* restarted against another entry (capped at MaxTicks)
  timers,       \* the intervals of the playback effects not yet cleared,
                \* each with the props its callback closed over
  genetic,      \* generateGeneticPattern: the position of a running call
                \* and its locals [pc, generation, population], with the
                \* population it started from
  movement,     \* LLMMovementController.generateMovementSequence: the
                \* position of a call, its duration, what the request
                \* brought and what the call settled to
  cellular,     \* history: the calls of generateCellularPattern made, each
                \* with its arguments, its draws and the pattern returned
  markov,       \* generateMarkovPattern: the position of a running call
                \* and its locals [pc, transitionMatrix, pattern]
  bridge        \* tcp-bridge: one connection, the bytes it has still to
                \* receive, the handler's buf, globalThis.device and the
                \* device.linear calls made

vars ==
  <<sequences, playing, autoAdvance, device, sequencers, timeouts, sent,
    ticks, timers, genetic, movement, cellular, markov, bridge>>

\* bridge while no connection is open.
NoBridge == [pc |-> "closed"]

\* markov while generateMarkovPattern is not running.
NoMarkov == [pc |-> "idle"]

\* movement while generateMovementSequence is not running.
NoMovement == [pc |-> "idle"]

\* genetic while generateGeneticPattern is not running.
NoGenetic == [pc |-> "idle"]

\* playing when no entry plays (undefined at first, null after a stop).
NoPlaying == -1

\* device before one is selected (undefined).
NoDevice == "none"

\* What a read past the end of an array, or of a hole, gives (undefined).
Undefined == -1000

\* The devices that can be selected, by the commands they allow.
Devices == {"linear", "vibrate", "both", "neither"}

\* useState(5): the row count of a new Sequencer.
DefaultRows == 5

\* The duration of a new sequence, and the slider's min, max and step.
DefaultDuration == 250

DurationMin == 250

DurationMax == 3000

DurationStep == 250

\* A slider that starts at 0.
SliderValuesFromZero ==
  {d \in 0..DurationMax : d % DurationStep = 0}

\* The values the duration slider can report.
SliderValues ==
  {d \in DurationMin..DurationMax : (d - DurationMin) % DurationStep = 0}

\* The pattern modes of the select box.
Modes ==
  {"manual", "random", "sine", "square", "triangle", "sawtooth", "cellular",
   "neural", "l-system", "genetic", "markov", "perlin", "brownian",
   "life-like", "organic-motion", "auto"}

\* {values: range(16).map(() => 0), duration: 250}
NewSequence ==
  [values |-> [c \in 1..DefaultColumns |-> 0], duration |-> DefaultDuration]

\* The state of a Sequencer when it mounts.
NewSequencer ==
  [playingIndex |-> 0, rows |-> DefaultRows, columns |-> DefaultColumns,
   patternMode |-> "manual"]

\* The divisor of the level a tick sends: values[nextPlayingIndex] / 4.
LevelDivisor == 4

\* No command yet.  A command carries its level as level / over.
NoCommand == [cmd |-> "none", level |-> 0, over |-> 1]

\* array[i] for a JavaScript index i.
At(array, i) ==
  IF i >= 0 /\ i < Len(array) THEN array[i + 1] ELSE Undefined

\* A default branch that starts from zeros.
PreserveValuesZeroed(values, columns) == [c \in 1..columns |-> 0]

\* A default branch that keeps the values and never cuts or pads them.
PreserveValuesUnsized(values, columns) == values

\* The default branch of the generation effect: the existing values, padded
\* with 0 or cut to columns.
PreserveValues(values, columns) ==
  IF Len(values) < columns
  THEN values \o [c \in 1..(columns - Len(values)) |-> 0]
  ELSE IF Len(values) > columns THEN SubSeq(values, 1, columns)
  ELSE values

\* A switch whose square mode has a generator of its own: the top row while
\* the sine is not negative, the bottom row otherwise.
PatternGenerationEffectSquare(patternMode, rows, columns, values) ==
  CASE patternMode = "square" ->
         {[c \in 1..columns |->
             IF SinTurn(c - 1, columns) >= 0 THEN rows - 1 ELSE 0]}
    [] patternMode \in {"sine", "triangle", "sawtooth"} ->
         {generateSineWavePattern(rows, columns)}
    [] OTHER -> {PreserveValues(values, columns)}

\* The generation effect's switch: the values newSequence can get.
PatternGenerationEffect(patternMode, rows, columns, values) ==
  CASE patternMode = "random" -> generateRandomPattern(rows, columns)
    [] patternMode \in {"sine", "square", "triangle", "sawtooth"} ->
         {generateSineWavePattern(rows, columns)}
    [] patternMode = "cellular" -> generateCellularPattern(rows, columns)
    [] patternMode = "neural" -> generateNeuralPattern(rows, columns)
    [] patternMode = "l-system" -> generateLSystemPattern(rows, columns)
    [] patternMode = "genetic" -> generateGeneticPattern(rows, columns)
    [] patternMode = "markov" -> generateMarkovPattern(rows, columns)
    [] patternMode = "perlin" -> generatePerlinPattern(rows, columns)
    [] patternMode = "brownian" -> generateBrownianPattern(rows, columns)
    [] patternMode = "life-like" -> generateLifeLikePattern(rows, columns)
    [] patternMode = "organic-motion" -> generateOrganicMotion(rows, columns)
    [] patternMode = "auto" -> generateAutoPattern(rows, columns)
    [] OTHER -> {PreserveValues(values, columns)}

\* The keys (indices) of the mounted Sequencers.
Keys == 0..(Len(sequencers) - 1)

\* paused={playing !== i}
Paused(i) == playing # i

\* isLast={i === sequences.length - 1}
IsLast(i) == i = Len(sequences) - 1

\* The playback effect of Sequencer i holds an interval timer: it returns
\* early without a device, when paused, and without values.
TimerLive(i) == i \in Keys /\ device # NoDevice /\ ~Paused(i)

\* What the interval callback of Sequencer i closes over when its playback
\* effect runs: the sequence, columns, autoAdvance and isLast of that render;
\* duration is the period the interval was created with.
TimerClosure(i) ==
  [i |-> i, values |-> sequences[i + 1].values,
   duration |-> sequences[i + 1].duration,
   columns |-> sequencers[i + 1].columns,
   advance |-> (autoAdvance /\ ~IsLast(i)), length |-> Len(sequences)]

\* The intervals that exist once the playback effects of a render have run.
LiveTimers == {TimerClosure(i) : i \in {k \in Keys : TimerLive(k)}}

\* Cleanups that clear nothing.
KeepTimers(intervals) == intervals

\* The cleanups of the playback effects: clearInterval(id) of every interval.
CleanupTimers(intervals) == {}

\* The passive effects of a render run: the cleanups, then the effects.
Effects == timers' = CleanupTimers(timers) \cup LiveTimers'

(***************************************************************************)
(* The handlers.  A handler is taken with the render and the effects it    *)
(* causes; the generation effect of a Sequencer runs when its patternMode, *)
(* rows or columns changed, and when it mounts.                            *)
(***************************************************************************)
\* setSequence(sequence) of Sequencer i: newSequences[i] = sequence.
setSequence(i, sequence) == [sequences EXCEPT ![i + 1] = sequence]

\* array[i] = v on a JavaScript array: a write past the end grows the array
\* and leaves holes, a write at a negative index leaves the elements alone.
WriteAt(array, i, v) ==
  IF i < 0 THEN array
  ELSE [k \in 1..Max(Len(array), i + 1) |->
          IF k = i + 1 THEN v
          ELSE IF k <= Len(array) THEN array[k] ELSE Undefined]

\* setVal(v, i) of Sequencer s: the value is written in place, unchecked.
setVal(sequence, v, i) == [sequence EXCEPT !.values = WriteAt(@, i, v)]

\* setDuration(duration) of a Sequencer: the duration is stored as given.
setDuration(sequence, duration) == [sequence EXCEPT !.duration = duration]

\* The cells of the grid: one column per value, one cell per row.
GridCells(s) ==
  {<<v, i>> : v \in 0..(sequencers[s + 1].rows - 1),
              i \in 0..(Len(sequences[s + 1].values) - 1)}

\* A click on cell (v, i) of Sequencer s.
SetVal(s, v, i) ==
  /\ s \in Keys
  /\ <<v, i>> \in GridCells(s)
  /\ sequences' = setSequence(s, setVal(sequences[s + 1], v, i))
  /\ UNCHANGED <<playing, autoAdvance, device, sequencers, timeouts, sent,
                 ticks>>
  /\ Effects
  /\ UNCHANGED <<genetic, movement, cellular, markov, bridge>>

\* The duration slider of Sequencer s reports d.
SetDurationHandler(s, d) ==
  /\ s \in Keys
  /\ d \in SliderValues
  /\ d # sequences[s + 1].duration
  /\ sequences' = setSequence(s, setDuration(sequences[s + 1], d))
  /\ UNCHANGED <<playing, autoAdvance, device, sequencers, timeouts, sent,
                 ticks>>

SetDuration(s, d) ==
  SetDurationHandler(s, d) /\ Effects /\ UNCHANGED <<genetic, movement, cellular, markov, bridge>>

\* The generation effect of Sequencer s after its state became next.
RunGenerationEffect(s, next) ==
  \E newSequence \in PatternGenerationEffect(next.patternMode, next.rows,
                                             next.columns,
                                             sequences[s + 1].values) :
    /\ sequences' =
         setSequence(s, [sequences[s + 1] EXCEPT !.values = newSequence])
    /\ sequencers' = [sequencers EXCEPT ![s + 1] = next]

\* The mode select of Sequencer s is set to mode.
SetPatternMode(s, mode) ==
  /\ s \in Keys
  /\ mode # sequencers[s + 1].patternMode
  /\ RunGenerationEffect(s, [sequencers[s + 1] EXCEPT !.patternMode = mode])
  /\ UNCHANGED <<playing, autoAdvance, device, timeouts, sent, ticks>>
  /\ Effects
  /\ UNCHANGED <<genetic, movement, cellular, markov, bridge>>

\* The columns input of Sequencer s is set to columns.
SetColumns(s, columns) ==
  /\ s \in Keys
  /\ columns # sequencers[s + 1].columns
  /\ RunGenerationEffect(s, [sequencers[s + 1] EXCEPT !.columns = columns])
  /\ UNCHANGED <<playing, autoAdvance, device, timeouts, sent, ticks>>
  /\ Effects
  /\ UNCHANGED <<genetic, movement, cellular, markov, bridge>>

\* The rows input of Sequencer s is set to rows.
SetRows(s, rows) ==
  /\ s \in Keys
  /\ rows # sequencers[s + 1].rows
  /\ RunGenerationEffect(s, [sequencers[s + 1] EXCEPT !.rows = rows])
  /\ UNCHANGED <<playing, autoAdvance, device, timeouts, sent, ticks>>
  /\ Effects
  /\ UNCHANGED <<genetic, movement, cellular, markov, bridge>>

\* A device is selected (setDevice).
SelectDevice(d) ==
  /\ device = NoDevice
  /\ d \in Devices
  /\ device' = d
  /\ UNCHANGED <<sequences, playing, autoAdvance, sequencers, timeouts, sent,
                 ticks>>
  /\ Effects
  /\ UNCHANGED <<genetic, movement, cellular, markov, bridge>>

\* device.stop()
StopCommand == [cmd |-> "stop", level |-> 0, over |-> 1]

\* The play / pause button of Sequencer s (disabled without a device):
\* onToggle(paused).
OnToggleHandler(s) ==
  /\ s \in Keys
  /\ device # NoDevice
  /\ IF Paused(s)
     THEN /\ playing' = s
          /\ ticks' = 0
          /\ sent' = sent
     ELSE /\ sent' = StopCommand
          /\ playing' = NoPlaying
          /\ ticks' = 0
  /\ UNCHANGED <<sequences, autoAdvance, device, sequencers, timeouts>>

OnToggle(s) == OnToggleHandler(s) /\ Effects /\ UNCHANGED <<genetic, movement, cellular, markov, bridge>>

\* array.splice(i, 1)
Splice(array, i) ==
  [k \in 1..(Len(array) - 1) |-> IF k <= i THEN array[k] ELSE array[k + 1]]

\* The remove button of Sequencer s: onRemove.  The Sequencers are keyed by
\* index, so the one with the last key unmounts and the others keep their
\* own state.
OnRemoveHandler(s) ==
  /\ s \in Keys
  /\ IF playing = s
     THEN /\ sent' = (IF device # NoDevice THEN StopCommand ELSE sent)
          /\ playing' = NoPlaying
     ELSE UNCHANGED <<sent, playing>>
  /\ sequences' = Splice(sequences, s)
  /\ sequencers' = SubSeq(sequencers, 1, Len(sequencers) - 1)
  /\ ticks' = (IF playing >= s THEN 0 ELSE ticks)
  /\ UNCHANGED <<autoAdvance, device, timeouts>>

OnRemove(s) == OnRemoveHandler(s) /\ Effects /\ UNCHANGED <<genetic, movement, cellular, markov, bridge>>

\* The "add sequencer" button; the new Sequencer mounts and its generation
\* effect (manual mode) stores its values again.
AddSequencer ==
  /\ Len(sequences) < MaxSequences
  /\ sequences' = Append(sequences, NewSequence)
  /\ sequencers' = Append(sequencers, NewSequencer)
  /\ ticks' = (IF playing = Len(sequences) THEN 0 ELSE ticks)
  /\ UNCHANGED <<playing, autoAdvance, device, timeouts, sent>>
  /\ Effects
  /\ UNCHANGED <<genetic, movement, cellular, markov, bridge>>

\* The auto-advance checkbox.
SetAutoAdvance(checked) ==
  /\ checked # autoAdvance
  /\ autoAdvance' = checked
  /\ UNCHANGED <<sequences, playing, device, sequencers, timeouts, sent,
                 ticks>>
  /\ Effects
  /\ UNCHANGED <<genetic, movement, cellular, markov, bridge>>

\* The inputs the playlist specification tries.
ColumnChoices == {DefaultColumns - 1, DefaultColumns}

\* The cap of the tick count: the largest column count tried.
MaxTicks == DefaultColumns

PlaylistModes == {"manual", "sine"}

\* The cell clicked while the playlist plays: the top row of column 1.
EditCells(s) ==
  {c \in GridCells(s) : c[1] = sequencers[s + 1].rows - 1 /\ c[2] = 1}

\* A dispatch that tests for the vibrate command first.
DeviceCommandVibrateFirst(values, nextPlayingIndex) ==
  IF device \in {"vibrate", "both"}
  THEN [cmd |-> "vibrate", level |-> At(values, nextPlayingIndex),
        over |-> LevelDivisor]
  ELSE IF device = "linear"
  THEN [cmd |-> "linear", level |-> At(values, nextPlayingIndex),
        over |-> LevelDivisor]
  ELSE sent

\* The command a tick sends for the index nextPlayingIndex of values: linear
\* if the device allows it, else vibrate if it allows that, else none.
DeviceCommand(values, nextPlayingIndex) ==
  IF device \in {"linear", "both"}
  THEN [cmd |-> "linear", level |-> At(values, nextPlayingIndex),
        over |-> LevelDivisor]
  ELSE IF device = "vibrate"
  THEN [cmd |-> "vibrate", level |-> At(values, nextPlayingIndex),
        over |-> LevelDivisor]
  ELSE sent

\* The command a tick of Sequencer s sends.
TickCommand(s, nextPlayingIndex) ==
  DeviceCommand(sequences[s + 1].values, nextPlayingIndex)

\* A cursor that is advanced only after the command is sent.
NextPlayingIndexUnmoved(playingIndex, columns) == playingIndex % columns

\* (playingIndex + 1) % columns
NextPlayingIndex(playingIndex, columns) == (playingIndex + 1) % columns

\* A test that calls onAdvance one step before the cursor wraps.
AdvanceDueEarly(s, nextPlayingIndex) ==
  nextPlayingIndex = sequencers[s + 1].columns - 1 /\ nextPlayingIndex # 0
  /\ autoAdvance /\ ~IsLast(s)

\* The tick's test for calling setTimeout(() => onAdvance(), 0).
AdvanceDue(s, nextPlayingIndex) ==
  nextPlayingIndex = 0 /\ autoAdvance /\ ~IsLast(s)

\* The onAdvance closure of Sequencer s as rendered: its index and the
\* playlist length it saw.
OnAdvanceClosure(s) == [i |-> s, length |-> Len(sequences)]

\* The interval callback of Sequencer s fires.  The timeout of an earlier
\* tick (0 ms) runs before the next tick (250 ms or more).
Tick(s) ==
  /\ TimerLive(s)
  /\ TimerClosure(s) \in timers
  /\ timeouts = <<>>
  /\ LET nextPlayingIndex ==
           NextPlayingIndex(sequencers[s + 1].playingIndex,
                            sequencers[s + 1].columns)
     IN  /\ sent' = TickCommand(s, nextPlayingIndex)
         /\ timeouts' = (IF AdvanceDue(s, nextPlayingIndex)
                         THEN Append(timeouts, OnAdvanceClosure(s))
                         ELSE timeouts)
         /\ sequencers' =
              [sequencers EXCEPT ![s + 1].playingIndex = nextPlayingIndex]
  /\ ticks' = Min(ticks + 1, MaxTicks)
  /\ UNCHANGED <<sequences, playing, autoAdvance, device>>
  /\ Effects
  /\ UNCHANGED <<genetic, movement, cellular, markov, bridge>>

\* A timeout runs: onAdvance() of the closure.
OnAdvance ==
  /\ timeouts # <<>>
  /\ LET c == Head(timeouts)
     IN  IF c.i + 1 < c.length
         THEN /\ playing' = c.i + 1
              /\ ticks' = (IF playing = c.i + 1 THEN ticks ELSE 0)
              /\ sent' = sent
         ELSE /\ playing' = NoPlaying
              /\ sent' = (IF device # NoDevice THEN StopCommand ELSE sent)
              /\ ticks' = 0
  /\ timeouts' = Tail(timeouts)
  /\ UNCHANGED <<sequences, autoAdvance, device, sequencers>>
  /\ Effects
  /\ UNCHANGED <<genetic, movement, cellular, markov, bridge>>

\* The page is loaded again: the playlist comes from localStorage, every
\* Sequencer mounts with its initial state, and each one's generation effect
\* calls setSequence with the playlist of the first render, so the last
\* call's playlist is the one kept.
Reload ==
  /\ sequences' =
       (IF sequences = <<>> THEN sequences
        ELSE [sequences EXCEPT ![Len(sequences)].values =
                PreserveValues(@, DefaultColumns)])
  /\ sequencers' = [k \in 1..Len(sequences) |-> NewSequencer]
  /\ playing' = NoPlaying
  /\ autoAdvance' = FALSE
  /\ device' = NoDevice
  /\ timeouts' = <<>>
  /\ ticks' = 0
  /\ UNCHANGED sent
  /\ Effects
  /\ UNCHANGED <<genetic, movement, cellular, markov, bridge>>

(***************************************************************************)
(* The program: the page loaded with an empty localStorage.                *)
(***************************************************************************)
Init ==
  /\ sequences = <<NewSequence>>
  /\ playing = NoPlaying
  /\ autoAdvance = FALSE
  /\ device = NoDevice
  /\ sequencers = <<NewSequencer>>
  /\ timeouts = <<>>
  /\ sent = NoCommand
  /\ ticks = 0
  /\ timers = {}
  /\ genetic = NoGenetic
  /\ movement = NoMovement
  /\ cellular = <<>>
  /\ markov = NoMarkov
  /\ bridge = NoBridge

\* The playlist and its playback.
Next ==
  \/ \E s \in Keys : \E c \in EditCells(s) : SetVal(s, c[1], c[2])
  \/ \E s \in Keys : \E c \in ColumnChoices : SetColumns(s, c)
  \/ \E d \in {"linear"} : SelectDevice(d)
  \/ \E s \in Keys : OnToggle(s)
  \/ \E s \in Keys : OnRemove(s)
  \/ AddSequencer
  \/ \E b \in BOOLEAN : SetAutoAdvance(b)
  \/ \E s \in Keys : Tick(s)
  \/ OnAdvance

Spec == Init /\ [][Next]_vars

(***************************************************************************)
(* The playlist's sequences under edits, with no device: cell edits,       *)
(* modes, column counts, add, remove and reload.                           *)
(***************************************************************************)
\* The cells clicked: the top row of columns 0 and 1.
ModelCells(s) ==
  {c \in GridCells(s) : c[1] = sequencers[s + 1].rows - 1 /\ c[2] \in {0, 1}}

NextModel ==
  \/ \E s \in Keys : \E c \in ModelCells(s) : SetVal(s, c[1], c[2])
  \/ \E s \in Keys : \E m \in PlaylistModes : SetPatternMode(s, m)
  \/ \E s \in Keys : \E c \in ColumnChoices : SetColumns(s, c)
  \/ \E s \in Keys : OnRemove(s)
  \/ AddSequencer
  \/ Reload

SpecModel == Init /\ [][NextModel]_vars

(***************************************************************************)
(* The intervals of the playback effects.  The root is a legacy one        *)
(* (ReactDOM.render), so the passive effects of a render committed by a    *)
(* click run later, in a task of their own: an interval that is due can    *)
(* fire in between, with the props of the render that created it.  React   *)
(* runs the effects that are due before it handles another click or        *)
(* renders again.                                                          *)
(***************************************************************************)
\* No passive effects are due.
Settled == timers = LiveTimers

\* A click on play / pause: the handler and the render, not yet the effects.
ToggleClick(s) ==
  Settled /\ OnToggleHandler(s) /\ UNCHANGED <<timers, genetic, movement, cellular, markov, bridge>>

\* A click on remove: the handler and the render, not yet the effects.
RemoveClick(s) ==
  Settled /\ OnRemoveHandler(s) /\ UNCHANGED <<timers, genetic, movement, cellular, markov, bridge>>

\* The passive effects that are due run: every cleanup, then every effect.
FlushPassiveEffects ==
  /\ ~Settled
  /\ timers' = CleanupTimers(timers) \cup LiveTimers
  /\ UNCHANGED <<sequences, playing, autoAdvance, device, sequencers,
                 timeouts, sent, ticks, genetic, movement, cellular, markov, bridge>>

\* An interval t fires while the effects that would clear it are due: its
\* updater runs against the cursor of its Sequencer, if still mounted, with
\* the props t closed over; the render it asks for runs the effects first.
StaleTick(t) ==
  /\ ~Settled
  /\ t \in timers
  /\ t.i \in Keys
  /\ timeouts = <<>>
  /\ LET nextPlayingIndex ==
           NextPlayingIndex(sequencers[t.i + 1].playingIndex, t.columns)
     IN  /\ sent' = DeviceCommand(t.values, nextPlayingIndex)
         /\ timeouts' = (IF nextPlayingIndex = 0 /\ t.advance
                         THEN Append(timeouts, [i |-> t.i, length |-> t.length])
                         ELSE timeouts)
         /\ sequencers' =
              [sequencers EXCEPT ![t.i + 1].playingIndex = nextPlayingIndex]
  /\ ticks' = Min(ticks + 1, MaxTicks)
  /\ UNCHANGED <<sequences, playing, autoAdvance, device>>
  /\ Effects
  /\ UNCHANGED <<genetic, movement, cellular, markov, bridge>>

NextTimers ==
  \/ Settled /\ \E s \in Keys : \E c \in EditCells(s) : SetVal(s, c[1], c[2])
  \/ Settled /\ \E d \in {"linear"} : SelectDevice(d)
  \/ Settled /\ AddSequencer
  \/ Settled /\ \E b \in BOOLEAN : SetAutoAdvance(b)
  \/ \E s \in Keys : ToggleClick(s)
  \/ \E s \in Keys : RemoveClick(s)
  \/ FlushPassiveEffects
  \/ \E s \in Keys : Tick(s)
  \/ \E t \in timers : StaleTick(t)
  \/ OnAdvance

SpecTimers == Init /\ [][NextTimers]_vars

(***************************************************************************)
(* The commands of one Sequencer's ticks, for every kind of device and     *)
(* for the row counts typed into the rows input.                           *)
(***************************************************************************)
\* The row counts typed: the default and one more.
RowChoices == {DefaultRows, DefaultRows + 1}

NextCommand ==
  \/ \E s \in Keys : \E c \in EditCells(s) : SetVal(s, c[1], c[2])
  \/ \E s \in Keys : \E rows \in RowChoices : SetRows(s, rows)
  \/ \E d \in Devices : SelectDevice(d)
  \/ \E s \in Keys : OnToggle(s)
  \/ \E s \in Keys : Tick(s)

SpecCommand == Init /\ [][NextCommand]_vars

(***************************************************************************)
(* The durations of the playlist's sequences: the slider, add, remove and  *)
(* reload.                                                                 *)
(***************************************************************************)
NextDuration ==
  \/ \E s \in Keys : \E d \in SliderValues : SetDuration(s, d)
  \/ \E s \in Keys : OnRemove(s)
  \/ AddSequencer
  \/ Reload

SpecDuration == Init /\ [][NextDuration]_vars

(***************************************************************************)
(* setVal called with any index and value, as a function of its            *)
(* arguments: the grid passes only valid ones.                             *)
(***************************************************************************)
\* The arguments tried: in range, just outside, and past the end.
CallLevels(s) == {-1, 0, sequencers[s + 1].rows - 1, sequencers[s + 1].rows}

CallIndices(s) == -1..(Len(sequences[s + 1].values) + 1)

CallSetVal(s, v, i) ==
  /\ s \in Keys
  /\ i <= DefaultColumns + 1
  /\ sequences' = setSequence(s, setVal(sequences[s + 1], v, i))
  /\ UNCHANGED <<playing, autoAdvance, device, sequencers, timeouts, sent,
                 ticks>>
  /\ Effects
  /\ UNCHANGED <<genetic, movement, cellular, markov, bridge>>

NextSetVal ==
  \E s \in Keys : \E v \in CallLevels(s) : \E i \in CallIndices(s) :
    CallSetVal(s, v, i)

SpecSetVal == Init /\ [][NextSetVal]_vars

(***************************************************************************)
(* One Sequencer with any row and column count, in manual mode with        *)
(* all-zero values, whose mode select is set to a generator.               *)
(***************************************************************************)
InitGen ==
  /\ \E rows \in 2..MaxRows : \E columns \in 1..MaxCols :
       /\ sequences = <<[values |-> [c \in 1..columns |-> 0],
                         duration |-> DefaultDuration]>>
       /\ sequencers = <<[playingIndex |-> 0, rows |-> rows,
                          columns |-> columns, patternMode |-> "manual"]>>
  /\ playing = NoPlaying
  /\ autoAdvance = FALSE
  /\ device = NoDevice
  /\ timeouts = <<>>
  /\ sent = NoCommand
  /\ ticks = 0
  /\ timers = {}
  /\ genetic = NoGenetic
  /\ movement = NoMovement
  /\ cellular = <<>>
  /\ markov = NoMarkov
  /\ bridge = NoBridge

NextGen ==
  \E mode \in Modes :
    /\ sequencers[1].patternMode = "manual"
    /\ SetPatternMode(0, mode)

SpecGen == InitGen /\ [][NextGen]_vars

(***************************************************************************)
(* generateGeneticPattern step by step: the Sequencer of InitGen is set    *)
(* to the genetic mode, its generation effect draws the population, runs   *)
(* the generations one at a time and hands population[0] to setValues.     *)
(***************************************************************************)
\* The mode select is set to genetic and the call draws its population.
GeneticStart(population, plan) ==
  /\ genetic = NoGenetic
  /\ sequencers[1].patternMode = "manual"
  /\ genetic' = [pc |-> "evolving", generation |-> 0, plan |-> plan,
                 initial |-> population, population |-> population]
  /\ sequencers' = [sequencers EXCEPT ![1].patternMode = "genetic"]
  /\ UNCHANGED <<sequences, playing, autoAdvance, device, timeouts, sent,
                 ticks, movement, cellular, markov, bridge>>
  /\ Effects

\* One pass of the loop over the generations.
GeneticEvolve ==
  /\ genetic.pc = "evolving"
  /\ genetic.generation < Generations
  /\ genetic' =
       [genetic EXCEPT
          !.population = GeneticGeneration(sequencers[1].rows,
                                           sequencers[1].columns,
                                           genetic.population, genetic.plan,
                                           genetic.generation),
          !.generation = genetic.generation + 1]
  /\ UNCHANGED <<sequences, playing, autoAdvance, device, sequencers,
                 timeouts, sent, ticks, timers, movement, cellular, markov, bridge>>

\* return population[0], which the generation effect stores.
GeneticReturn ==
  /\ genetic.pc = "evolving"
  /\ genetic.generation >= Generations
  /\ genetic' = [genetic EXCEPT !.pc = "returned"]
  /\ sequences' =
       setSequence(0, [sequences[1] EXCEPT !.values = genetic.population[1]])
  /\ UNCHANGED <<playing, autoAdvance, device, sequencers, timeouts, sent,
                 ticks, movement, cellular, markov, bridge>>
  /\ Effects

NextGenetic ==
  \/ \E population \in GeneticPopulations(sequencers[1].rows,
                                           sequencers[1].columns) :
       \E plan \in GeneticPlans : GeneticStart(population, plan)
  \/ GeneticEvolve
  \/ GeneticReturn

SpecGenetic == InitGen /\ [][NextGenetic]_vars

(***************************************************************************)
(* The duration slider moved while a sequence runs, with the handlers and  *)
(* the passive effects as separate steps.                                  *)
(***************************************************************************)
\* The slider positions tried.
DurationChoices == {DefaultDuration, DefaultDuration + DurationStep}

\* The slider of Sequencer s is moved to d: the handler and the render,
\* not yet the effects.
DurationInput(s, d) ==
  Settled /\ SetDurationHandler(s, d) /\ UNCHANGED <<timers, genetic, movement, cellular, markov, bridge>>

NextRestart ==
  \/ Settled /\ \E d \in {"linear"} : SelectDevice(d)
  \/ Settled /\ AddSequencer
  \/ \E s \in Keys : ToggleClick(s)
  \/ \E s \in Keys : \E d \in DurationChoices : DurationInput(s, d)
  \/ FlushPassiveEffects
  \/ \E s \in Keys : Tick(s)
  \/ \E t \in timers : StaleTick(t)

SpecRestart == Init /\ [][NextRestart]_vars

(***************************************************************************)
(* generateCellularPattern called twice for the rows and columns of the    *)
(* first Sequencer, each call with a seed and its own draws.               *)
(***************************************************************************)
\* The seeds and the draws of the later steps tried.
CellularSeeds == {0, 500}

CellularDraws == {0, 500, 999}

generateCellularCall(seed, first, later) ==
  /\ Len(cellular) < 2
  /\ cellular' =
       Append(cellular,
              [seed |-> seed, first |-> first, later |-> later,
               pattern |-> CellularRun(sequencers[1].rows,
                                       sequencers[1].columns,
                                       seed, first, later)])
  /\ UNCHANGED <<sequences, playing, autoAdvance, device, sequencers,
                 timeouts, sent, ticks, timers, genetic, movement, markov, bridge>>

NextCellular ==
  \E seed \in CellularSeeds : \E first \in RandomDraws :
    \E later \in [1..(sequencers[1].columns - 1) -> CellularDraws] :
      generateCellularCall(seed, first, later)

SpecCellular == Init /\ [][NextCellular]_vars

(***************************************************************************)
(* generateMarkovPattern step by step: the Sequencer of InitGen is set to  *)
(* the markov mode, its generation effect draws the matrix and the first   *)
(* state, walks one state per step and hands the pattern to setValues.     *)
(***************************************************************************)
\* The mode select is set to markov; the call draws its matrix and
\* pattern[0].
MarkovStart(transitionMatrix, first) ==
  /\ markov = NoMarkov
  /\ sequencers[1].patternMode = "manual"
  /\ markov' = [pc |-> "walking", transitionMatrix |-> transitionMatrix,
                pattern |-> <<FloorRandom(first, sequencers[1].rows)>>]
  /\ sequencers' = [sequencers EXCEPT ![1].patternMode = "markov"]
  /\ UNCHANGED <<sequences, playing, autoAdvance, device, timeouts, sent,
                 ticks, genetic, movement, cellular, bridge>>
  /\ Effects

\* One pass of the loop over the columns, with the draw rand.
MarkovStep(rand) ==
  /\ markov.pc = "walking"
  /\ Len(markov.pattern) < sequencers[1].columns
  /\ markov' =
       [markov EXCEPT
          !.pattern =
            Append(markov.pattern,
                   MarkovNext(markov.transitionMatrix,
                              markov.pattern[Len(markov.pattern)], rand))]
  /\ UNCHANGED <<sequences, playing, autoAdvance, device, sequencers,
                 timeouts, sent, ticks, timers, genetic, movement, cellular, bridge>>

\* return pattern, which the generation effect stores.
MarkovReturn ==
  /\ markov.pc = "walking"
  /\ Len(markov.pattern) >= sequencers[1].columns
  /\ markov' = [markov EXCEPT !.pc = "returned"]
  /\ sequences' =
       setSequence(0, [sequences[1] EXCEPT !.values = markov.pattern])
  /\ UNCHANGED <<playing, autoAdvance, device, sequencers, timeouts, sent,
                 ticks, genetic, movement, cellular, bridge>>
  /\ Effects

NextMarkov ==
  \/ \E transitionMatrix \in MarkovMatricesBy(sequencers[1].rows, {0, 1}) :
       \E first \in RandomDraws : MarkovStart(transitionMatrix, first)
  \/ \E rand \in RandomDraws : MarkovStep(rand)
  \/ MarkovReturn

SpecMarkov == InitGen /\ [][NextMarkov]_vars

(***************************************************************************)
(* LLMMovementController (src/unnamed/part_003).  Parameters are in        *)
(* thousandths, intensities in millionths.  A field of the reply is        *)
(* [type, words]: type is what JSON gave ("missing", "empty" for '',       *)
(* "string", "zero" for 0, false and null, "number" for another number or  *)
(* true, "array", "object"), words the keywords a string contains or an    *)
(* array holds.                                                            *)
(***************************************************************************)
Keywords == {"gentle", "intense", "slow", "fast", "smooth", "erratic"}

\* Math.sin(i / steps * Math.PI * 2 * frequency) in millionths, floored,
\* for frequency 0.5, 0.75 and 1.5, steps = 1..6 and i = 0..steps-1.
SinTimeTable ==
  [frequency \in {500, 750, 1500} |->
     CASE frequency = 500 ->
            << <<0>>,
               <<0, 1000000>>,
               <<0, 866025, 866025>>,
               <<0, 707106, 1000000, 707106>>,
               <<0, 587785, 951056, 951056, 587785>>,
               <<0, 499999, 866025, 1000000, 866025, 499999>> >>
       [] frequency = 750 ->
            << <<0>>,
               <<0, 707106>>,
               <<0, 1000000, 0>>,
               <<0, 923879, 707106, -382684>>,
               <<0, 809016, 951056, 309016, -587786>>,
               <<0, 707106, 1000000, 707106, 0, -707107>> >>
       [] frequency = 1500 ->
            << <<0>>,
               <<0, -1000000>>,
               <<0, 0, -1>>,
               <<0, 707106, -1000000, 707106>>,
               <<0, 951056, -587786, -587786, 951056>>,
               <<0, 1000000, 0, -1000000, -1, 1000000>> >>]

SinTime(i, steps, frequency) ==
  IF frequency = 1000 THEN SinTurn(i, steps)
  ELSE SinTimeTable[frequency][steps][i + 1]

\* JavaScript's truthiness of a field.
Truthy(field) == field.type \in {"string", "number", "array", "object"}

EmptyString == [type |-> "empty", words |-> {}]

\* data.response || data.generated_text || ''
ResponseText(data) ==
  IF Truthy(data.response) THEN data.response
  ELSE IF Truthy(data.generated_text) THEN data.generated_text
  ELSE EmptyString

\* text.includes exists on strings and arrays only.
HasIncludes(text) == text.type \in {"string", "empty", "array"}

parseMovementOutput(text) ==
  LET includes(word) == word \in text.words
      gentle == IF includes("gentle") THEN 500 \div 2 ELSE 500
      slow == IF includes("slow") THEN 1000 \div 2 ELSE 1000
  IN  [intensity |-> IF includes("intense") THEN (gentle * 3) \div 2 ELSE gentle,
       frequency |-> IF includes("fast") THEN (slow * 3) \div 2 ELSE slow,
       smoothness |-> IF includes("smooth") THEN 1000 ELSE 800,
       variation |-> IF includes("erratic") THEN 800 ELSE 300]

\* The intensity of step i before Math.max(0, Math.min(1, ...)).
MovementIntensity(params, steps, i) ==
  LET baseIntensity == params.intensity * 1000
      variation ==
        (SinTime(i, steps, params.frequency) * params.variation) \div 1000
      smoothness ==
        (SinTurn(i, steps) * (1000 - params.smoothness)) \div 1000
  IN  baseIntensity + variation + smoothness

\* A conversion that does not clamp.
convertToActuatorCommandsUnclamped(params, duration) ==
  [c \in 1..(duration \div 100) |->
     MovementIntensity(params, duration \div 100, c - 1)]

convertToActuatorCommands(params, duration) ==
  LET steps == duration \div 100
  IN  [c \in 1..steps |->
         Max(0, Min(SinScale, MovementIntensity(params, steps, c - 1)))]

generateFallbackPattern(duration) ==
  [c \in 1..(duration \div 100) |-> SinScale \div 2]

\* The durations asked for.
Durations == {0, 99} \cup {100 * k + 50 * (k % 2) : k \in 1..MaxSteps}

\* The replies tried: every string by the keywords it contains, and the
\* other kinds of JSON value.
ResponseFields ==
  {[type |-> "string", words |-> w] : w \in SUBSET Keywords}
    \cup {[type |-> "array", words |-> w] :
            w \in {{}, {"gentle"}, {"fast", "erratic"}}}
    \cup {[type |-> t, words |-> {}] :
            t \in {"missing", "empty", "zero", "number", "object"}}

GeneratedTextFields ==
  {[type |-> "missing", words |-> {}],
   [type |-> "string", words |-> {"intense", "erratic"}],
   [type |-> "number", words |-> {}]}

NoData == [response |-> [type |-> "missing", words |-> {}],
           generated_text |-> [type |-> "missing", words |-> {}]]

\* generateMovementSequence is called: the prompt is built outside the try,
\* and JSON.stringify(currentState) throws for a state it cannot write
\* (stringifies = FALSE).
generateMovementSequence(duration, stringifies) ==
  /\ movement = NoMovement
  /\ movement' = [pc |-> (IF stringifies THEN "fetch" ELSE "rejected"),
                  duration |-> duration, outcome |-> "none", data |-> NoData,
                  commands |-> <<>>]
  /\ UNCHANGED <<sequences, playing, autoAdvance, device, sequencers,
                 timeouts, sent, ticks, timers, genetic, cellular, markov, bridge>>

\* The request settles: fetch rejects ("network"), res.json() rejects
\* ("notJSON"), or the body parses to null ("null") or to an object.
Fetch(outcome, data) ==
  /\ movement.pc = "fetch"
  /\ outcome = "object" \/ data = NoData
  /\ movement' = [movement EXCEPT !.pc = "fetched", !.outcome = outcome,
                                  !.data = data]
  /\ UNCHANGED <<sequences, playing, autoAdvance, device, sequencers,
                 timeouts, sent, ticks, timers, genetic, cellular, markov, bridge>>

\* Whether the try block throws: the await of fetch or of res.json(), a
\* property read of null, or text.includes on a value that has none.
Throws ==
  \/ movement.outcome # "object"
  \/ ~HasIncludes(ResponseText(movement.data))

\* The try block returns the converted parameters.
Return ==
  /\ movement.pc = "fetched"
  /\ ~Throws
  /\ movement' =
       [movement EXCEPT
          !.pc = "resolved",
          !.commands =
            convertToActuatorCommands(
              parseMovementOutput(ResponseText(movement.data)),
              movement.duration)]
  /\ UNCHANGED <<sequences, playing, autoAdvance, device, sequencers,
                 timeouts, sent, ticks, timers, genetic, cellular, markov, bridge>>

\* The catch block returns the fallback pattern.
Catch ==
  /\ movement.pc = "fetched"
  /\ Throws
  /\ movement' =
       [movement EXCEPT
          !.pc = "resolved",
          !.commands = generateFallbackPattern(movement.duration)]
  /\ UNCHANGED <<sequences, playing, autoAdvance, device, sequencers,
                 timeouts, sent, ticks, timers, genetic, cellular, markov, bridge>>

NextMovement ==
  \/ \E duration \in Durations : \E stringifies \in BOOLEAN :
       generateMovementSequence(duration, stringifies)
  \/ \E outcome \in {"network", "notJSON", "null"} : Fetch(outcome, NoData)
  \/ \E response \in ResponseFields :
       \E generated_text \in GeneratedTextFields :
         Fetch("object", [response |-> response,
                          generated_text |-> generated_text])
  \/ Return
  \/ Catch

SpecMovement == Init /\ [][NextMovement]_vars

(***************************************************************************)
(* The properties.                                                         *)
(***************************************************************************)
\* The values and the state of the Sequencer with key s.
ValuesOf(s) == sequences[s + 1].values

SequencerOf(s) == sequencers[s + 1]

\* C1: for every generation mode, every rows >= 2 and columns >= 1, every
\* value of the generated sequence lies in [0, rows - 1].
C1_GeneratedValuesInRange ==
  \A s \in Keys :
    SequencerOf(s).patternMode # "manual" =>
      \A c \in 1..Len(ValuesOf(s)) :
        ValuesOf(s)[c] \in 0..(SequencerOf(s).rows - 1)

\* C2: for every generation mode and every columns >= 1, the generated
\* sequence has exactly columns entries.
C2_GeneratedLengthIsColumns ==
  \A s \in Keys :
    SequencerOf(s).patternMode # "manual" =>
      Len(ValuesOf(s)) = SequencerOf(s).columns

\* A brownian walk of the largest column count was generated.
C2_Witness ==
  \E s \in Keys :
    /\ SequencerOf(s).patternMode = "brownian"
    /\ SequencerOf(s).columns = MaxCols
    /\ Len(ValuesOf(s)) = MaxCols
    /\ ValuesOf(s)[MaxCols] # ValuesOf(s)[1]

\* C3: in every reachable state, after any add, remove, column-count change,
\* mode change and cell edit, the values of each displayed sequence have the
\* length of the column count of the Sequencer that plays it.
C3_ValuesLengthIsColumns ==
  \A s \in Keys : Len(ValuesOf(s)) = SequencerOf(s).columns

\* new is old resized to m entries, of which the first min(k, m) are kept and
\* the others are 0.
Resized(old, new, k, m) ==
  /\ Len(new) = m
  /\ \A c \in 1..m : new[c] = (IF c <= Min(k, m) THEN At(old, c - 1) ELSE 0)

\* C4 (amended): in manual mode a change of the column count to m yields
\* values of length m whose first min(k, m) entries are the previous values
\* in order, k being the previous length of the values, and whose other
\* entries are 0.
C4_ManualResizePreservesPrefix ==
  [][\A s \in Keys : \A m \in ColumnChoices :
       (SequencerOf(s).patternMode = "manual" /\ SetColumns(s, m)) =>
         Resized(ValuesOf(s), sequences'[s + 1].values, Len(ValuesOf(s)), m)
    ]_vars

\* A manual Sequencer was resized below the default and kept its edited
\* first value.
C4_Witness ==
  \E s \in Keys :
    /\ SequencerOf(s).patternMode = "manual"
    /\ SequencerOf(s).columns < DefaultColumns
    /\ Len(ValuesOf(s)) = SequencerOf(s).columns
    /\ ValuesOf(s)[1] = SequencerOf(s).rows - 1

\* C4 as stated: any change of the column count from n to m yields values of
\* length m whose first min(n, m) entries are the previous values in order
\* and whose other entries are 0.
C4_AnyResizePreservesPrefix ==
  [][\A s \in Keys : \A m \in ColumnChoices :
       SetColumns(s, m) =>
         Resized(ValuesOf(s), sequences'[s + 1].values,
                 SequencerOf(s).columns, m)
    ]_vars

\* C5: setVal with an index outside [0, length) or a value outside
\* [0, rows - 1] leaves the sequence unchanged.
C5_InvalidEditLeavesSequence ==
  [][\A s \in Keys : \A v \in CallLevels(s) : \A i \in CallIndices(s) :
       (CallSetVal(s, v, i) /\ <<v, i>> \notin GridCells(s)) =>
         sequences' = sequences
    ]_vars

RequestedDurations ==
  SliderValues \cup {0, DurationMin - 1, DurationMax + 1}

C7_TickAdvancesThenSends ==
  [][\A s \in Keys :
       Tick(s) =>
         LET cursor == (SequencerOf(s).playingIndex + 1)
                         % SequencerOf(s).columns
         IN  /\ sequencers'[s + 1].playingIndex = cursor
             /\ sent'.cmd = "linear"
             /\ sent'.level = At(ValuesOf(s), cursor)
    ]_vars

\* The first tick of a sequence started fresh moved the cursor to 1 and sent
\* the edited level of step 1.
C7_Witness ==
  \E s \in Keys :
    /\ TimerLive(s)
    /\ ticks = 1
    /\ SequencerOf(s).playingIndex = 1
    /\ ValuesOf(s) = <<0, SequencerOf(s).rows - 1>>
    /\ sent.cmd = "linear"
    /\ sent.level = SequencerOf(s).rows - 1

\* C8: the loop-complete signal is raised only at a tick where the cursor
\* returns to 0, and never before all the steps of the sequence have been
\* played since it was started.
C8_LoopCompleteAfterFullCycle ==
  [][\A s \in Keys :
       (Tick(s) /\ Len(timeouts') > Len(timeouts)) =>
         /\ sequencers'[s + 1].playingIndex = 0
         /\ ticks' >= SequencerOf(s).columns
    ]_vars

\* C9: with autoAdvance true and the active sequence i not the last entry,
\* the tick that completes a loop of i raises the signal, and the signal makes
\* i + 1 the active sequence and stops the ticks of i.
C9_LoopCompleteActivatesNext ==
  [][/\ \A s \in Keys :
          (Tick(s) /\ autoAdvance /\ ~IsLast(s)
             /\ sequencers'[s + 1].playingIndex = 0) =>
            timeouts' = <<[i |-> s, length |-> Len(sequences)]>>
     /\ OnAdvance =>
          \A i \in 0..MaxSequences :
            i = Head(timeouts).i => (playing' = i + 1 /\ ~TimerLive(i)')
    ]_vars

\* The first of two sequences completed a loop of all its steps with
\* autoAdvance on: its signal is pending.
C9_Witness ==
  /\ autoAdvance
  /\ Len(sequences) = 2
  /\ playing = 0
  /\ timeouts = <<[i |-> 0, length |-> 2]>>
  /\ sequencers[1].columns = DefaultColumns
  /\ ticks = DefaultColumns
  /\ sequencers[1].playingIndex = 0

\* C10: with autoAdvance true, the tick that completes a loop of the last
\* entry stops playback, at once or by the signal it raises.
C10_LastEntryLoopStops ==
  [][\A s \in Keys :
       (Tick(s) /\ autoAdvance /\ IsLast(s)
          /\ sequencers'[s + 1].playingIndex = 0) =>
         (playing' = NoPlaying \/ timeouts' # <<>>)
    ]_vars

\* C11: once playback is stopped by a pause, the stop command stays the
\* last command the device received for as long as no sequence is active: no
\* tick fires after the stop.
C11_StopIsLastCommand ==
  [][(playing = NoPlaying /\ sent = StopCommand /\ playing' = NoPlaying) =>
       sent' = StopCommand
    ]_vars

\* C12: in every reachable state at most one sequence has a live interval,
\* and once the effects of a hand-off have run it is the interval of the
\* active sequence.
C12_OneLiveTimer ==
  /\ Cardinality(timers) <= 1
  /\ Settled => \A t \in timers : t.i = playing

\* The second sequence holds the only interval after a hand-off from the
\* first, which had ticked.
C12_Witness ==
  /\ Len(sequences) = 2
  /\ playing = 1
  /\ timers = {TimerClosure(1)}
  /\ sequencers[1].playingIndex = 1
  /\ sent.cmd = "linear"

\* C17: removing the active entry sends the stop command to a connected
\* device, sets the active index to none and removes the entry, and
\* afterwards no interval created before the removal fires.
C17_RemoveActiveStopsPlayback ==
  [][/\ \A s \in Keys :
          (RemoveClick(s) /\ playing = s) =>
            /\ playing' = NoPlaying
            /\ device # NoDevice => sent' = StopCommand
            /\ sequences' = Splice(sequences, s)
     /\ \A t \in timers :
          (playing = NoPlaying /\ t.length > Len(sequences)) => ~StaleTick(t)
    ]_vars

\* C13: each tick sends a linear command if the device allows linear
\* movement (also when it allows vibrate too), otherwise a vibrate command if
\* it allows vibrate, otherwise no command.
C13_CommandByCapability ==
  [][\A s \in Keys :
       Tick(s) =>
         /\ device \in {"linear", "both"} => sent'.cmd = "linear"
         /\ device = "vibrate" => sent'.cmd = "vibrate"
         /\ device = "neither" => sent' = sent
         /\ sent'.cmd \in {"linear", "vibrate"} =>
              sent'.level =
                At(ValuesOf(s), sequencers'[s + 1].playingIndex)
    ]_vars

\* A device that allows both commands received a linear command for the
\* edited step.
C13_Witness ==
  \E s \in Keys :
    /\ device = "both"
    /\ TimerLive(s)
    /\ sent.cmd = "linear"
    /\ sent.level = SequencerOf(s).rows - 1
    /\ SequencerOf(s).playingIndex = 1

\* C14: every step command carries the intensity level / (rows - 1) for the
\* level at the cursor, and that intensity lies in [0, 1].
C14_IntensityByRows ==
  [][\A s \in Keys :
       (Tick(s) /\ device # "neither") =>
         LET level == At(ValuesOf(s), sequencers'[s + 1].playingIndex)
         IN  /\ sent'.level * (SequencerOf(s).rows - 1) = level * sent'.over
             /\ 0 <= sent'.level
             /\ sent'.level <= sent'.over
    ]_vars

\* C15: whenever the column count of the sequence of a running Sequencer
\* changes, its cursor is reset to 0.
C15_ResizeResetsCursor ==
  [][\A s \in Keys : \A c \in ColumnChoices :
       (TimerLive(s) /\ SetColumns(s, c)) =>
         sequencers'[s + 1].playingIndex = 0
    ]_vars

\* C16: when a sequence becomes the active one (play of an entry, resume
\* after pause, auto-advance), its cursor is reset to 0.
C16_StartResetsCursor ==
  [][\A s \in Keys :
       (playing # s /\ playing' = s) => sequencers'[s + 1].playingIndex = 0
    ]_vars

\* C18: for a mode that is not a generator (manual, or one the switch does
\* not know) the generation effect yields exactly the existing values cut or
\* padded with 0 to the column count, the kept prefix unchanged.
C18_UnrecognizedModePassesThrough ==
  \A s \in Keys : \A mode \in {"manual", "unrecognized"} :
    \A m \in ColumnChoices :
      LET results == PatternGenerationEffect(mode, SequencerOf(s).rows, m,
                                             ValuesOf(s))
      IN  /\ Cardinality(results) = 1
          /\ \A v \in results :
               Resized(ValuesOf(s), v, Len(ValuesOf(s)), m)

\* A Sequencer set back to manual mode kept the values the sine generator
\* gave it.
C18_Witness ==
  \E s \in Keys :
    /\ SequencerOf(s).patternMode = "manual"
    /\ Len(ValuesOf(s)) = SequencerOf(s).columns
    /\ ValuesOf(s)[1] = SineLevel(SequencerOf(s).rows, SequencerOf(s).columns, 0)
    /\ ValuesOf(s)[1] # 0

\* C19: in a sequence of the life-like walk, for rows >= 2, no two
\* consecutive entries are both 0 and no two are both rows - 1.
C19_LifeLikeLeavesBoundary ==
  \A s \in Keys :
    SequencerOf(s).patternMode = "life-like" =>
      \A c \in 1..(Len(ValuesOf(s)) - 1) :
        /\ ~(ValuesOf(s)[c] = 0 /\ ValuesOf(s)[c + 1] = 0)
        /\ ~(ValuesOf(s)[c] = SequencerOf(s).rows - 1
               /\ ValuesOf(s)[c + 1] = SequencerOf(s).rows - 1)

\* A life-like walk touched both boundaries and left each at once.
C19_Witness ==
  \E s \in Keys :
    /\ SequencerOf(s).patternMode = "life-like"
    /\ SequencerOf(s).rows = 2
    /\ SequencerOf(s).columns = MaxCols
    /\ ValuesOf(s)[1] = 0
    /\ ValuesOf(s)[2] = 1
    /\ ValuesOf(s)[3] = 0

\* The top-ranked individual of a population: the first after the sort.
TopRanked(rows, population) == SortByFitness(rows, population)[1]

\* C20: in the genetic generator the fitness of the top-ranked individual
\* never decreases from the ranking of one generation to the next, and the
\* returned individual is at least as fit as some member of the initial
\* population.
C20_GeneticTopNeverDecreases ==
  [][/\ GeneticEvolve =>
          fitness(sequencers[1].rows,
                  TopRanked(sequencers[1].rows, genetic'.population))
            >= fitness(sequencers[1].rows,
                       TopRanked(sequencers[1].rows, genetic.population))
     /\ GeneticReturn =>
          \E k \in 1..PopulationSize :
            fitness(sequencers[1].rows, sequences'[1].values)
              >= fitness(sequencers[1].rows, genetic.initial[k])]_vars

\* A call returned a bred individual that is fitter than every member of
\* the population it started from.
C20_Witness ==
  /\ genetic.pc = "returned"
  /\ sequencers[1].patternMode = "genetic"
  /\ sequences[1].values = genetic.population[1]
  /\ \A k \in 1..PopulationSize :
       fitness(sequencers[1].rows, sequences[1].values)
         > fitness(sequencers[1].rows, genetic.initial[k])

\* C21: the genetic generator returns the best individual after the final
\* generation: the returned sequence is at least as fit as every member of
\* the population as it stands at the return, the offspring of the fifth
\* generation included.
C21_GeneticReturnsBest ==
  genetic.pc = "returned" =>
    \A k \in 1..PopulationSize :
      fitness(sequencers[1].rows, sequences[1].values)
        >= fitness(sequencers[1].rows, genetic.population[k])

\* C22: a loop completion activates the next sequence only if the chain is
\* still active when the deferred advance is carried out: after a pause or
\* the removal of the active entry in between, the advance activates no
\* sequence and playback stays stopped.
C22_AdvanceOnlyWhileActive ==
  [][(OnAdvance /\ playing = NoPlaying) => playing' = NoPlaying]_vars

\* A finished or failed call of generateMovementSequence.
MovementSettled == movement.pc \in {"resolved", "rejected"}

\* The request brought no parameter bundle: it failed, its body was not
\* JSON or was null, or the reply holds no text in either field.
NoBundle ==
  \/ movement.outcome \in {"network", "notJSON", "null"}
  \/ /\ movement.outcome = "object"
     /\ movement.data.response.type # "string"
     /\ movement.data.generated_text.type # "string"

\* C23: on any failure to obtain a parameter bundle (network error, body
\* that is not JSON, missing or non-string response field, any other
\* exception) generateMovementSequence does not fail and resolves to
\* floor(duration / 100) entries all equal to 0.5.
C23_FailureGivesFallback ==
  (MovementSettled /\ NoBundle) =>
    /\ movement.pc = "resolved"
    /\ Len(movement.commands) = movement.duration \div 100
    /\ \A c \in 1..Len(movement.commands) :
         movement.commands[c] = SinScale \div 2

\* C24: convertToActuatorCommands returns exactly floor(duration / 100)
\* values, each within [0, 1].
C24_CommandsCountedAndClamped ==
  (movement.pc = "resolved" /\ ~Throws) =>
    /\ Len(movement.commands) = movement.duration \div 100
    /\ \A c \in 1..Len(movement.commands) :
         /\ 0 <= movement.commands[c]
         /\ movement.commands[c] <= SinScale

\* An intense and erratic reply converted for the longest duration: one
\* step was cut to 1 and another to 0.
C24_Witness ==
  /\ movement.pc = "resolved"
  /\ ~Throws
  /\ movement.duration \div 100 = MaxSteps
  /\ ResponseText(movement.data).words = {"intense", "erratic"}
  /\ \E c \in 1..Len(movement.commands) : movement.commands[c] = SinScale
  /\ \E c \in 1..Len(movement.commands) : movement.commands[c] = 0

\* C25: after the duration of a running sequence is changed the old timer
\* is cancelled and exactly one timer, of the new interval, is live; no tick
\* of the old timer fires after the change; no timer is left when playback
\* is stopped.
C25_DurationChangeRestartsTimer ==
  [][/\ \A s \in Keys :
          (Settled' /\ TimerLive(s)') =>
            \A t \in timers' :
              t.i = s /\ t.duration = sequences'[s + 1].duration
     /\ (Settled' /\ playing' = NoPlaying) => timers' = {}
     /\ \A t \in timers :
          (t.i \in Keys /\ t.duration # sequences[t.i + 1].duration) =>
            ~StaleTick(t)
    ]_vars

\* C26: the deterministic waveform modes are periodic over the columns: the
\* per-column formula gives the same level at i and at i + columns, for
\* every i in [0, columns).
C26_WaveformPeriodic ==
  \A s \in Keys :
    SequencerOf(s).patternMode \in {"sine", "square", "triangle", "sawtooth"} =>
      \A i \in 0..(SequencerOf(s).columns - 1) :
        At(ValuesOf(s), i) =
          SineLevel(SequencerOf(s).rows, SequencerOf(s).columns,
                    i + SequencerOf(s).columns)

\* C27: while a sequence runs, an event that leaves its step count and
\* duration unchanged (here a single-cell edit) neither resets the cursor nor
\* cancels and recreates the playback timer: the interval that is live
\* after the edit is the one that was live before it.
C27_EditKeepsCursorAndTimer ==
  [][\A s \in Keys : \A c \in EditCells(s) :
       (TimerLive(s) /\ SetVal(s, c[1], c[2])) =>
         /\ sequencers'[s + 1].playingIndex = sequencers[s + 1].playingIndex
         /\ timers' = timers
    ]_vars

\* C28: in the cellular generator the seed affects only the first value:
\* two calls with the same seed and the same draws for the later steps
\* return the same sequence.
C28_SeedFixesFirstValue ==
  \A a, b \in 1..Len(cellular) :
    (cellular[a].seed = cellular[b].seed
       /\ cellular[a].later = cellular[b].later) =>
      cellular[a].pattern = cellular[b].pattern

\* C29: in a sequence of the brownian walk consecutive entries differ by
\* at most 2, and two consecutive entries are equal only at a boundary
\* level, 0 or rows - 1.
C29_BrownianSteps ==
  \A s \in Keys :
    SequencerOf(s).patternMode = "brownian" =>
      \A c \in 1..(Len(ValuesOf(s)) - 1) :
        /\ Abs(ValuesOf(s)[c + 1] - ValuesOf(s)[c]) <= 2
        /\ ValuesOf(s)[c + 1] = ValuesOf(s)[c] =>
             ValuesOf(s)[c] \in {0, SequencerOf(s).rows - 1}

\* A brownian walk stepped down by 2 onto level 0 and was held there by the
\* clamp.
C29_Witness ==
  \E s \in Keys :
    /\ SequencerOf(s).patternMode = "brownian"
    /\ SequencerOf(s).rows = MaxRows
    /\ ValuesOf(s) = <<2, 0, 0>>

\* The cumulative transition probability of the states 0..j in a
\* normalized row; NaN as soon as one of them is NaN.
CumulativeProb(probs, j) ==
  IF \E k \in 1..(j + 1) : probs[k] = NaN THEN NaN
  ELSE SumSeq(SubSeq(probs, 1, j + 1))

\* Whether the cumulative probability of 0..j reaches the draw rand.
Reaches(probs, j, rand) ==
  /\ CumulativeProb(probs, j) # NaN
  /\ CumulativeProb(probs, j) >= rand * (ProbScale \div RandomScale)

\* C30: each step of the Markov walk moves to the first state j whose
\* cumulative transition probability from the current state reaches the
\* draw, or stays when no state does; every emitted state is a row index.
C30_MarkovFirstReaching ==
  [][\A rand \in RandomDraws :
       MarkovStep(rand) =>
         LET rows == sequencers[1].rows
             current == markov.pattern[Len(markov.pattern)]
             probs == NormalizeRow(markov.transitionMatrix[current + 1])
             next == markov'.pattern[Len(markov'.pattern)]
             reaching == {j \in 0..(rows - 1) : Reaches(probs, j, rand)}
         IN  /\ next \in 0..(rows - 1)
             /\ reaching # {} =>
                  /\ next \in reaching
                  /\ \A j \in reaching : next <= j
             /\ reaching = {} => next = current
    ]_vars

\* A walk of MaxCols states returned, in which it first moved from state 0
\* to state 1 and then to a higher state: not every step chose state 0 and
\* not every step stayed.
C30_Witness ==
  /\ markov.pc = "returned"
  /\ sequencers[1].patternMode = "markov"
  /\ sequences[1].values = markov.pattern
  /\ Len(markov.pattern) = MaxCols
  /\ markov.pattern[1] = 0
  /\ markov.pattern[2] = 1
  /\ markov.pattern[3] > 1

\* C31: while autoAdvance is false a loop completion never changes the
\* active index: neither the tick that wraps the cursor nor an advance it
\* raised moves playback to another entry or stops it, and the cursor wraps
\* modulo the column count.
C31_NoAdvanceWhenOff ==
  [][~autoAdvance =>
       /\ \A s \in Keys :
            Tick(s) =>
              /\ playing' = playing
              /\ sequencers'[s + 1].playingIndex =
                   (sequencers[s + 1].playingIndex + 1)
                     % sequencers[s + 1].columns
       /\ OnAdvance => playing' = playing
    ]_vars

\* C32: removing an entry other than the active one does not change which
\* sequence plays: after the removal the active index names an entry with
\* the values and duration of the entry that was active before.
C32_RemoveOtherKeepsPlaying ==
  [][\A s \in Keys :
       (OnRemove(s) /\ playing # NoPlaying /\ playing # s) =>
         /\ playing' + 1 \in DOMAIN sequences'
         /\ sequences'[playing' + 1] = sequences[playing + 1]
    ]_vars

\* C33: the active index is none or a valid index into the playlist.
C33_ActiveIndexValid ==
  playing = NoPlaying \/ (0 <= playing /\ playing < Len(sequences))

\* C34: on every tick the index read, (cursor + 1) mod columns, is an index
\* of the values of the bound sequence, so the level sent is defined.
C34_TickReadsValidIndex ==
  [][\A s \in Keys :
       Tick(s) =>
         /\ sequencers'[s + 1].playingIndex < Len(ValuesOf(s))
         /\ sent'.cmd \in {"linear", "vibrate"} => sent'.level # Undefined
    ]_vars


\* C35: a setSequence of one entry leaves every other entry as it was last
\* written: an edit of entry s changes no other entry, and when the mounted
\* Sequencers all write in one pass (a reload), every entry holds what its own
\* Sequencer's generation effect wrote.
C35_WritesKeepOtherEntries ==
  [][/\ \A s \in Keys :
          (\E c \in ModelCells(s) : SetVal(s, c[1], c[2])) =>
            \A k \in DOMAIN sequences :
              k # s + 1 => sequences'[k] = sequences[k]
     /\ Reload =>
          \A k \in DOMAIN sequences :
            sequences'[k].values =
              PreserveValues(sequences[k].values, DefaultColumns)
    ]_vars

MOVE_MS == 400

\* Bytes are written as strings: an ASCII byte as its character, the line
\* feed as "LF", and the two bytes of U+00E9 in UTF-8 as "C3" and "A9".
\* Decoded characters are written the same way, with "U+00E9" and "U+FFFD".
LF == "LF"

\* The lines the streams are made of.
NumberLine == <<"{", "\"", "p", "\"", ":", "1", "}">>

TextLine == <<"{", "\"", "p", "\"", ":", "\"", "C3", "A9", "\"", "}">>

BadLine == <<"{", "\"", "p", "\"", ":">>

NullLine == <<"n", "u", "l", "l">>

EmptyObjectLine == <<"{", "}">>

BridgeLines == {NumberLine, TextLine, BadLine, NullLine, EmptyObjectLine}

\* A line whose newline has not been sent.
PartialLine == <<"{", "\"", "p", "\"", ":", "2">>

\* The streams of at most n newline-terminated lines.
RECURSIVE LinesStreams(_)
LinesStreams(n) ==
  IF n = 0 THEN {<<>>}
  ELSE {<<>>} \cup
       {line \o <<LF>> \o s : line \in BridgeLines, s \in LinesStreams(n - 1)}

\* The byte streams a connection is tried with: lines, then nothing or a
\* partial line.
BridgeStreams ==
  {s \o tail : s \in LinesStreams(MaxLines), tail \in {<<>>, PartialLine}}
    \ {<<>>}

\* globalThis.device: undefined, a device with linear, a device without.
BridgeDevices == {"undefined", "linear", "vibrate"}

\* chunk.toString(): the UTF-8 decoding of one chunk on its own.  A lead
\* byte with no continuation byte after it in the chunk, and a continuation
\* byte with no lead byte before it, each decode to U+FFFD.
RECURSIVE toString(_)
toString(chunk) ==
  IF chunk = <<>> THEN <<>>
  ELSE IF chunk[1] = "C3"
    THEN IF Len(chunk) >= 2 /\ chunk[2] = "A9"
         THEN <<"U+00E9">> \o toString(SubSeq(chunk, 3, Len(chunk)))
         ELSE <<"U+FFFD">> \o toString(Tail(chunk))
  ELSE IF chunk[1] = "A9" THEN <<"U+FFFD">> \o toString(Tail(chunk))
  ELSE <<chunk[1]>> \o toString(Tail(chunk))

\* buf.indexOf("\n"): the 0-based index of the first line feed, or -1.
indexOf(buf) ==
  IF \E i \in DOMAIN buf : buf[i] = LF
  THEN (CHOOSE i \in DOMAIN buf :
          buf[i] = LF /\ \A k \in 1..(i - 1) : buf[k] # LF) - 1
  ELSE -1

\* The JSON scalars of the texts tried: a one-digit number, or a string
\* with no quote, backslash or control character inside.
JSONScalar(text) ==
  IF Len(text) = 1 /\ text[1] \in {"0", "1", "2"}
  THEN [type |-> "number", text |-> text]
  ELSE IF /\ Len(text) >= 2
          /\ text[1] = "\"" /\ text[Len(text)] = "\""
          /\ \A k \in 2..(Len(text) - 1) : text[k] \notin {"\"", "\\", LF}
  THEN [type |-> "string", text |-> SubSeq(text, 2, Len(text) - 1)]
  ELSE [type |-> "SyntaxError", text |-> <<>>]

\* JSON.parse(line) on the texts tried: null, a scalar, {} or {"p":scalar};
\* any other text throws a SyntaxError.
JSONParse(line) ==
  IF line = <<"n", "u", "l", "l">> THEN [type |-> "null", p |-> [type |-> "undefined", text |-> <<>>]]
  ELSE IF line = <<"{", "}">>
    THEN [type |-> "object", p |-> [type |-> "undefined", text |-> <<>>]]
  ELSE IF /\ Len(line) >= 7
          /\ SubSeq(line, 1, 5) = <<"{", "\"", "p", "\"", ":">>
          /\ line[Len(line)] = "}"
          /\ JSONScalar(SubSeq(line, 6, Len(line) - 1)).type # "SyntaxError"
    THEN [type |-> "object", p |-> JSONScalar(SubSeq(line, 6, Len(line) - 1))]
  ELSE IF JSONScalar(line).type # "SyntaxError"
    THEN [type |-> "scalar", p |-> [type |-> "undefined", text |-> <<>>]]
  ELSE [type |-> "SyntaxError", p |-> [type |-> "undefined", text |-> <<>>]]

\* Whether the try block throws on the line: JSON.parse does, or the
\* destructuring of null does.
LineThrows(line) == JSONParse(line).type \in {"SyntaxError", "null"}

\* The try block on one line: the calls of device.linear after it.  What
\* it throws is caught and logged.
TryLine(line, calls, dev) ==
  IF LineThrows(line) THEN calls
  ELSE IF dev = "linear"
    THEN Append(calls, [p |-> JSONParse(line).p, ms |-> MOVE_MS])
  ELSE calls

\* The while loop of the data handler.
RECURSIVE DrainLines(_, _, _)
DrainLines(buf, calls, dev) ==
  LET idx == indexOf(buf)
  IN  IF idx < 0 THEN [buf |-> buf, calls |-> calls]
      ELSE DrainLines(SubSeq(buf, idx + 2, Len(buf)),
                      TryLine(SubSeq(buf, 1, idx), calls, dev), dev)

\* A loop with no try block: what a line throws ends the handler, and the
\* rest of buf waits for the next chunk.
RECURSIVE DrainLinesUncaught(_, _, _)
DrainLinesUncaught(buf, calls, dev) ==
  LET idx == indexOf(buf)
  IN  IF idx < 0 THEN [buf |-> buf, calls |-> calls]
      ELSE IF LineThrows(SubSeq(buf, 1, idx))
        THEN [buf |-> SubSeq(buf, idx + 2, Len(buf)), calls |-> calls]
      ELSE DrainLinesUncaught(SubSeq(buf, idx + 2, Len(buf)),
                              TryLine(SubSeq(buf, 1, idx), calls, dev), dev)

dataHandlerUncaught(buf, calls, dev, chunk) ==
  DrainLinesUncaught(buf \o toString(chunk), calls, dev)

\* socket.on("data", chunk => ...): buf and the calls after the handler.
dataHandler(buf, calls, dev, chunk) ==
  DrainLines(buf \o toString(chunk), calls, dev)

\* A chunk of n bytes arrives.
OnData(n) ==
  /\ bridge.pc = "open"
  /\ n \in 1..Len(bridge.pending)
  /\ LET chunk == SubSeq(bridge.pending, 1, n)
         after == dataHandler(bridge.buf, bridge.calls, bridge.device, chunk)
     IN  bridge' =
           [bridge EXCEPT
              !.pending = SubSeq(bridge.pending, n + 1, Len(bridge.pending)),
              !.received = bridge.received \o chunk,
              !.buf = after.buf,
              !.calls = after.calls]
  /\ UNCHANGED <<sequences, playing, autoAdvance, device, sequencers,
                 timeouts, sent, ticks, timers, genetic, movement, cellular,
                 markov>>

\* globalThis.device is assigned between two data events (once per
\* connection tried).
SetGlobalDevice(dev) ==
  /\ bridge.pc = "open"
  /\ bridge.steady
  /\ dev # bridge.device
  /\ bridge.pending # <<>>
  /\ bridge' = [bridge EXCEPT !.device = dev, !.steady = FALSE]
  /\ UNCHANGED <<sequences, playing, autoAdvance, device, sequencers,
                 timeouts, sent, ticks, timers, genetic, movement, cellular,
                 markov>>

\* A client has connected and will send stream; buf is "".
InitBridge ==
  /\ sequences = <<NewSequence>>
  /\ playing = NoPlaying
  /\ autoAdvance = FALSE
  /\ device = NoDevice
  /\ sequencers = <<NewSequencer>>
  /\ timeouts = <<>>
  /\ sent = NoCommand
  /\ ticks = 0
  /\ timers = {}
  /\ genetic = NoGenetic
  /\ movement = NoMovement
  /\ cellular = <<>>
  /\ markov = NoMarkov
  /\ \E stream \in BridgeStreams : \E dev \in BridgeDevices :
       bridge = [pc |-> "open", pending |-> stream, received |-> <<>>,
                 buf |-> <<>>, device |-> dev, steady |-> TRUE,
                 calls |-> <<>>]

NextBridge ==
  \/ \E n \in 1..Len(bridge.pending) : OnData(n)
  \/ \E dev \in BridgeDevices : SetGlobalDevice(dev)

SpecBridge == InitBridge /\ [][NextBridge]_vars

(***************************************************************************)
(* The Sequencer of InitGen switched among the waveform modes and manual,  *)
(* with cell edits in between: every switch generates again.               *)
(***************************************************************************)
WaveModes == {"sine", "square", "triangle", "sawtooth"}

NextWave ==
  \/ \E mode \in WaveModes \cup {"manual"} : SetPatternMode(0, mode)
  \/ \E c \in ModelCells(0) : SetVal(0, c[1], c[2])

SpecWave == InitGen /\ [][NextWave]_vars

\* C37: the four waveform modes produce the identical sequence, the one the
\* sine formula gives for the row and column count, and generating again,
\* from whatever values and mode, gives that same sequence.
C37_WaveModesIdentical ==
  [][\A mode \in WaveModes :
       SetPatternMode(0, mode) =>
         /\ Len(sequences'[1].values) = sequencers[1].columns
         /\ \A c \in 1..sequencers[1].columns :
              sequences'[1].values[c] =
                SineLevel(sequencers[1].rows, sequencers[1].columns, c - 1)
    ]_vars

\* A square-mode Sequencer holds the sine pattern of 5 rows and 3 columns.
C37_Witness ==
  /\ sequencers[1].patternMode = "square"
  /\ sequencers[1].rows = 5
  /\ sequences[1].values = generateSineWavePattern(5, 3)
  /\ sequences[1].values = <<2, 3, 0>>

\* C38: however the bytes a connection has received were divided into
\* chunks, the device.linear calls made are those made when the same bytes
\* arrive as one chunk (globalThis.device being the same throughout), and buf
\* holds no complete line.
C38_ChunkingIrrelevant ==
  (bridge.pc = "open" /\ bridge.steady) =>
    /\ bridge.calls =
         dataHandler(<<>>, <<>>, bridge.device, bridge.received).calls
    /\ indexOf(bridge.buf) < 0

\* The line of text that ends at the line feed at position e.
LineEndingAt(text, e) ==
  LET before == {i \in 1..(e - 1) : text[i] = LF}
      start == IF before = {} THEN 1
               ELSE 1 + CHOOSE i \in before : \A k \in before : k <= i
  IN  SubSeq(text, start, e - 1)

\* C39: of the complete lines a data event brings, those that are not valid
\* JSON (or that the try block throws on) produce no command, and none does
\* while globalThis.device has no linear; neither stops the loop: with a
\* linear device every well-formed line of the event, before or after a bad
\* one, adds its own call, in order, after the calls made so far.
C39_BadLinesSkipped ==
  [][\A n \in {Len(bridge'.received) - Len(bridge.received)} \ {0} :
       OnData(n) =>
         LET text == bridge.buf \o toString(SubSeq(bridge.pending, 1, n))
             ends == {e \in DOMAIN text : text[e] = LF}
             good == {e \in ends : ~LineThrows(LineEndingAt(text, e))}
             made == Len(bridge.calls)
         IN  IF bridge.device = "linear"
             THEN /\ Len(bridge'.calls) = made + Cardinality(good)
                  /\ SubSeq(bridge'.calls, 1, made) = bridge.calls
                  /\ \A e \in good :
                       bridge'.calls[made + Cardinality({g \in good : g <= e})]
                         = [p |-> JSONParse(LineEndingAt(text, e)).p,
                            ms |-> MOVE_MS]
             ELSE bridge'.calls = bridge.calls
    ]_vars

\* A line that is not valid JSON has been received, and the well-formed line
\* after it has been delivered to the linear device.
C39_Witness ==
  /\ bridge.pc = "open"
  /\ bridge.device = "linear"
  /\ bridge.received = BadLine \o <<LF>> \o NumberLine \o <<LF>>
  /\ bridge.calls =
       <<[p |-> [type |-> "number", text |-> <<"1">>], ms |-> MOVE_MS]>>

=============================================================================
